---- MODULE Spec2Model ----
(***************************************************************************)
(* Models of four programs of the repository, each with its own next-state *)
(* relation over the variables below:                                      *)
(*   - the access-tracked in-memory cache of src/unnamed/part_018 (Spec,   *)
(*     and SpecGets and SpecConc for calls that overlap);                  *)
(*   - the doubly linked list of src/unnamed/part_024 (SpecList);          *)
(*   - the order life cycle of src/unnamed/part_010 (SpecOrder);           *)
(*   - the library of src/day8/06_challenge.go (SpecLibrary).              *)
(***************************************************************************)
EXTENDS Integers, Sequences, FiniteSets, TLC

\* ---------------------------------------------------------------- bounds
\* Get calls the caller issues between two Clear calls.
MaxGets == 3
\* Largest n passed to MostAccessed / LeastAccessed (the smallest is -1).
MaxN == 3
\* Get, Delete and Clear calls the goroutines make when their calls may overlap.
MaxCalls == 3

\* The caller's keys, listed in ascending lexicographic (byte-wise) order.
KeyNames == <<"a", "b", "c">>
KeySet == {KeyNames[i] : i \in 1..Len(KeyNames)}
ValSet == {"v1", "v2"}
NSet == (0 - 1)..MaxN

\* Marker for "no argument" in a call record.
None == "-"

VARIABLES
    data,         \* Cache.data: map[string]string
    accessCount,  \* Cache.accessCount: map[string]int
    hits,         \* Cache.hits
    misses,       \* Cache.misses
    call,         \* the call made last: method, arguments, and what the key had before it
    ret,          \* the tuple of values that call returned (<<>> when it returns nothing)
    panicked,     \* the call ended in a run-time panic, which nothing recovers
    getCalls,     \* history: Get calls issued since the last Clear (or creation)
    succGets,     \* history: per key, successful Gets since the key was last created
    delCnt,       \* history: per key, the count it had when deleted (-1: not deleted since its last Set)
    delHits,      \* history: the access counts removed by Delete calls since the last Clear, summed
    callers,      \* per goroutine calling the cache: where it stands in its call and what it holds
    overlapped,   \* history: some call began while another goroutine's call was under way
    begun,        \* history: Get, Delete and Clear calls begun by the goroutines, overlapping or not
    list,         \* the LinkedList: head, tail, size and the ListNodes it can reach
    theOrder,     \* the Order: status and updatedAt
    clock,        \* what time.Now() returned last
    books,        \* Library.Books: ISBN -> Book
    members       \* Library.Members: ID -> Member

vars == <<data, accessCount, hits, misses, call, ret, panicked, getCalls, succGets, delCnt,
          delHits, callers, overlapped, begun,
          list, theOrder, clock, books, members>>

\* ------------------------------------------------------------- Go helpers
\* m[key] with the comma-ok idiom: whether key is in the map.
Has(m, key) == key \in DOMAIN m

\* Variant of MapSet: every key of the map gets the value.
MapSetAll(m, key, v) == [k \in DOMAIN m \cup {key} |-> v]

\* m[key] = v
MapSet(m, key, v) == [k \in DOMAIN m \cup {key} |-> IF k = key THEN v ELSE m[k]]

\* Variant of MapDelete: nothing is removed.
MapDeleteNothing(m, key) == m

\* delete(m, key)
MapDelete(m, key) == [k \in DOMAIN m \ {key} |-> m[k]]

\* make(map[...]...)
EmptyMap == [k \in {} |-> 0]

\* m[key] read of an int map: the zero value when the key is missing.
CountOf(m, key) == IF Has(m, key) THEN m[key] ELSE 0

\* Variant of IncCount: the count goes up by 2.
IncCountTwice(m, key) == MapSet(m, key, CountOf(m, key) + 2)

\* Variant of IncCount: the increment is lost.
IncCountLost(m, key) == m

\* m[key]++
IncCount(m, key) == MapSet(m, key, CountOf(m, key) + 1)

\* Variant of InitCount: a Set of a stored key counts as an access.
InitCountOrBump(m, key) ==
    IF ~Has(m, key) THEN MapSet(m, key, 0) ELSE MapSet(m, key, m[key] + 1)

\* Variant of InitCount: the count is set to 0 whether or not the key is new.
InitCountAlways(m, key) == MapSet(m, key, 0)

\* if _, exists := m[key]; !exists { m[key] = 0 }
InitCount(m, key) == IF ~Has(m, key) THEN MapSet(m, key, 0) ELSE m

\* The orders in which `for k := range m` may yield the keys of m.
RangeOrders(m) ==
    {s \in [1..Cardinality(DOMAIN m) -> DOMAIN m] :
        \A i, j \in 1..Cardinality(DOMAIN m) : i # j => s[i] # s[j]}

\* Go's < on the caller's strings.
KeyIndex(s) == CHOOSE i \in 1..Len(KeyNames) : KeyNames[i] = s
StringLess(x, y) == KeyIndex(x) < KeyIndex(y)

Min(x, y) == IF x < y THEN x ELSE y

\* s[i], s[j] = s[j], s[i]
Swap(s, i, j) == [s EXCEPT ![i] = s[j], ![j] = s[i]]

\* The items slice built by ranging over accessCount in the given order.
Items(order) ==
    [i \in 1..Len(order) |-> [key |-> order[i], count |-> accessCount[order[i]]]]

\* Variant of lessMost: keys with equal counts are ordered by key.
lessMostThenKey(items, i, j) ==
    \/ items[i].count > items[j].count
    \/ /\ items[i].count = items[j].count
       /\ StringLess(items[i].key, items[j].key)

\* Variant of lessMost: the comparison is the wrong way round.
lessMostAscending(items, i, j) == items[i].count < items[j].count

\* The less function MostAccessed hands to sort.Slice: count descending.
lessMost(items, i, j) == items[i].count > items[j].count

\* The less function LeastAccessed hands to sort.Slice: count ascending.
lessLeast(items, i, j) == items[i].count < items[j].count

\* Variant of lessStrings: the comparison is the wrong way round.
lessStringsDescending(items, i, j) == StringLess(items[j], items[i])

\* The comparison sort.Strings uses.
lessStrings(items, i, j) == StringLess(items[i], items[j])

lessBy(kind, items, i, j) ==
    CASE kind = "most" -> lessMost(items, i, j)
      [] kind = "least" -> lessLeast(items, i, j)
      [] kind = "strings" -> lessStrings(items, i, j)

\* sort.Slice / sort.Strings on a slice of at most 12 elements: the library's
\* insertion sort, `for i := a+1; i < b; i++ { for j := i; j > a &&
\* less(j, j-1); j-- { swap(j, j-1) } }`, on 1-based positions.
RECURSIVE insertInner(_, _, _)
insertInner(kind, s, j) ==
    IF j > 1 /\ lessBy(kind, s, j, j - 1)
      THEN insertInner(kind, Swap(s, j, j - 1), j - 1)
      ELSE s

RECURSIVE insertOuter(_, _, _)
insertOuter(kind, s, i) ==
    IF i > Len(s) THEN s ELSE insertOuter(kind, insertInner(kind, s, i), i + 1)

\* Variant of sortSlice: the slice is left as the range built it.
sortSliceOmitted(kind, s) == s

sortSlice(kind, s) == insertOuter(kind, s, 2)

\* make([]string, 0, n) panics when n is negative.
MakeSlicePanics(n) == n < 0

\* `for i := 0; i < n && i < len(items); i++ { result = append(result, items[i].key) }`
TopN(items, n) == [i \in 1..Min(n, Len(items)) |-> items[i].key]

\* What MostAccessed(n) returns when the map is ranged over in the given order.
MostAccessedResult(order, n) == TopN(sortSlice("most", Items(order)), n)

\* What LeastAccessed(n) returns when the map is ranged over in the given order.
LeastAccessedResult(order, n) == TopN(sortSlice("least", Items(order)), n)

\* What Keys() returns when the map is ranged over in the given order.
KeysResult(order) == sortSlice("strings", order)

\* What Size() returns.
SizeResult == Cardinality(DOMAIN data)

\* ---- float64 ----
\* A float64 is modelled by its binary digits: bits is the significand, most
\* significant digit first, MantissaBits digits with bits[1] = 1, and exp is
\* the power of two of bits[1], so the value is (bits read as an integer) *
\* 2^(exp - MantissaBits + 1).  Only values >= 0 occur.  Zero has no 1 digit.
MantissaBits == 53

Zeros(n) == [i \in 1..n |-> 0]

FloatZero == [exp |-> 0, bits |-> Zeros(MantissaBits)]

\* The binary digits of the integer n >= 0, most significant first (none for 0).
RECURSIVE IntBits(_)
IntBits(n) == IF n = 0 THEN <<>> ELSE IntBits(n \div 2) \o <<n % 2>>

\* b without its leading zeros.
StripZeros(b) ==
    LET ones == {i \in 1..Len(b) : b[i] = 1}
    IN IF ones = {} THEN <<>>
       ELSE SubSeq(b, CHOOSE i \in ones : \A j \in ones : i <= j, Len(b))

\* b + 1: the trailing ones become zeros and the zero before them a one.
Increment(b) ==
    LET zeros == {i \in 1..Len(b) : b[i] = 0}
        z == CHOOSE i \in zeros : \A j \in zeros : i >= j
    IN IF zeros = {} THEN <<1>> \o Zeros(Len(b))
       ELSE [i \in 1..Len(b) |-> IF i < z THEN b[i] ELSE IF i = z THEN 1 ELSE 0]

\* The digit of weight 2^p in b.
Bit(b, p) == IF p < Len(b) THEN b[Len(b) - p] ELSE 0

\* The product is computed on groups of LimbBits digits, small enough for the
\* partial products to stay within the integers.
LimbBits == 13

\* The integer made of the k digits of b from weight 2^p upwards.
RECURSIVE LimbOf(_, _, _)
LimbOf(b, p, k) == IF k = 0 THEN 0 ELSE Bit(b, p) + 2 * LimbOf(b, p + 1, k - 1)

\* The groups of b * n from group j upwards, least significant first.
RECURSIVE MulLimbs(_, _, _, _)
MulLimbs(b, n, j, carry) ==
    IF j * LimbBits >= Len(b) /\ carry = 0 THEN <<>>
    ELSE LET s == LimbOf(b, j * LimbBits, LimbBits) * n + carry
         IN <<s % (2 ^ LimbBits)>> \o MulLimbs(b, n, j + 1, s \div (2 ^ LimbBits))

\* The digits of b * n for an integer n >= 0 (leading zeros possible).
MulBits(b, n) ==
    LET limbs == MulLimbs(b, n, 0, 0)
        L == Len(limbs) * LimbBits
    IN [i \in 1..L |->
           (limbs[((L - i) \div LimbBits) + 1] \div (2 ^ ((L - i) % LimbBits))) % 2]

\* Round to nearest, ties to even: the float64 of the number whose digits are
\* b, scaled by 2^scale, plus a positive remainder below one unit of b's last
\* digit when sticky.  b is long enough whenever sticky is set.
RoundFloat(b, sticky, scale) ==
    LET d == StripZeros(b)
        L == Len(d)
    IN IF L = 0 THEN FloatZero
       ELSE IF L <= MantissaBits
         THEN [exp |-> scale + L - 1, bits |-> d \o Zeros(MantissaBits - L)]
         ELSE LET kept == SubSeq(d, 1, MantissaBits)
                  guard == d[MantissaBits + 1]
                  rest == sticky \/ \E i \in (MantissaBits + 2)..L : d[i] = 1
                  up == guard = 1 /\ (rest \/ kept[MantissaBits] = 1)
                  inc == IF up THEN Increment(kept) ELSE kept
              IN IF Len(inc) > MantissaBits
                   THEN [exp |-> scale + L, bits |-> SubSeq(inc, 1, MantissaBits)]
                   ELSE [exp |-> scale + L - 1, bits |-> inc]

\* 2^i modulo t, by repeated squaring.
RECURSIVE Pow2Mod(_, _)
Pow2Mod(i, t) ==
    IF i = 0 THEN 1 % t
    ELSE LET half == Pow2Mod(i \div 2, t)
         IN (half * half * (IF i % 2 = 1 THEN 2 ELSE 1)) % t

\* What is left of r / t (0 <= r < t) after i digits of long division.
DivRem(r, t, i) == (r * Pow2Mod(i, t)) % t

\* The first n digits of r / t after the binary point (0 <= r < t).
DivBits(r, t, n) ==
    [i \in 1..n |-> IF 2 * DivRem(r, t, i - 1) >= t THEN 1 ELSE 0]

\* float64(h) / float64(t) for integers h >= 0 and t > 0 that float64 holds
\* exactly: the quotient h / t rounded once.
QuoFloat(h, t) ==
    LET n == MantissaBits + 2 + Len(IntBits(t))
    IN RoundFloat(IntBits(h \div t) \o DivBits(h % t, t, n),
                  DivRem(h % t, t, n) # 0, 0 - n)

\* x * float64(n) for a float64 x and an integer n that float64 holds exactly:
\* the product rounded once.
MulFloat(x, n) == RoundFloat(MulBits(x.bits, n), FALSE, x.exp - (MantissaBits - 1))

\* x < y on digits of equal length.
BitsLess(x, y) ==
    \E i \in 1..Len(x) : x[i] < y[i] /\ \A j \in 1..(i - 1) : x[j] = y[j]

\* x <= y on float64 values >= 0.
FloatLeq(x, y) ==
    \/ x = y
    \/ x = FloatZero
    \/ y # FloatZero /\ x.exp < y.exp
    \/ y # FloatZero /\ x.exp = y.exp /\ BitsLess(x.bits, y.bits)

\* The float64 next above x > 0.
NextUp(x) ==
    LET inc == Increment(x.bits)
    IN IF Len(inc) > MantissaBits
         THEN [exp |-> x.exp + 1, bits |-> SubSeq(inc, 1, MantissaBits)]
         ELSE [exp |-> x.exp, bits |-> inc]

\* Variant of HitRateOf: the ratio is not turned into a percentage.
HitRateAsFraction(h, m) ==
    IF h + m = 0 THEN FloatZero ELSE QuoFloat(h, h + m)

\* The hit rate Stats() computes from h hits and m misses:
\* float64(hits) / float64(total) * 100, and 0.0 when total is 0.
HitRateOf(h, m) ==
    IF h + m = 0 THEN FloatZero ELSE MulFloat(QuoFloat(h, h + m), 100)

\* The hit rate for every value the counters take within MaxGets Get calls.
HitRates == [h \in 0..MaxGets |-> [m \in 0..MaxGets |-> HitRateOf(h, m)]]

\* The hit rate of the current counters.
HitRate == HitRates[hits][misses]

\* What Stats() returns.
StatsResult == <<hits, misses, HitRate>>

\* What a call finds before it runs: for its key (when it has one) whether the
\* key is stored, its value and access count (Go's zero values when missing)
\* and the count it was deleted with; and the cache's size and Get calls so far.
Before(key) ==
    [had |-> Has(data, key),
     old |-> IF Has(data, key) THEN data[key] ELSE "",
     cnt |-> CountOf(accessCount, key),
     del |-> IF key \in KeySet THEN delCnt[key] ELSE 0 - 1,
     size |-> Cardinality(DOMAIN data),
     gets |-> getCalls]

\* The record describing a call: method, arguments, and what it found.
Call(op, key, val, n) ==
    [op |-> op, key |-> key, val |-> val, n |-> n, pre |-> Before(key)]

\* The goroutines that call the cache.  main is the only one in the program;
\* a second one is what a concurrent caller adds.
Callers == {"g1", "g2"}

\* A goroutine that is in no call.
Idle == [pc |-> "idle", key |-> None, val |-> "", seen |-> 0, live |-> FALSE]

\* ------------------------------------------------------------------ state
Init ==
    /\ data = EmptyMap
    /\ accessCount = EmptyMap
    /\ hits = 0
    /\ misses = 0
    /\ call = [op |-> "NewCache", key |-> None, val |-> None, n |-> 0,
               pre |-> [had |-> FALSE, old |-> "", cnt |-> 0, del |-> 0 - 1,
                        size |-> 0, gets |-> 0]]
    /\ ret = <<>>
    /\ panicked = FALSE
    /\ getCalls = 0
    /\ succGets = [k \in KeySet |-> 0]
    /\ delCnt = [k \in KeySet |-> 0 - 1]
    /\ delHits = 0
    /\ callers = [g \in Callers |-> Idle]
    /\ overlapped = FALSE
    /\ begun = 0
    /\ list = [head |-> 0, tail |-> 0, size |-> 0, nodes |-> <<>>]
    /\ theOrder = [status |-> "pending", updatedAt |-> 0]
    /\ clock = 0
    /\ books = EmptyMap
    /\ members = EmptyMap

\* ------------------------------------------------------------- operations
Set(key, value) ==
    /\ data' = MapSet(data, key, value)
    /\ accessCount' = InitCount(accessCount, key)
    /\ UNCHANGED <<hits, misses>>
    /\ call' = Call("Set", key, value, 0)
    /\ ret' = <<>>
    /\ UNCHANGED panicked
    /\ delCnt' = [delCnt EXCEPT ![key] = 0 - 1]
    /\ UNCHANGED <<getCalls, succGets, delHits>>

\* Variant of Get: the access count is incremented before the lookup, hit or miss.
GetCountsBeforeLookup(key) ==
    /\ getCalls < MaxGets
    /\ IF Has(data, key)
         THEN /\ hits' = hits + 1
              /\ accessCount' = IncCount(accessCount, key)
              /\ ret' = <<data[key], TRUE>>
              /\ succGets' = [succGets EXCEPT ![key] = @ + 1]
              /\ UNCHANGED misses
         ELSE /\ misses' = misses + 1
              /\ ret' = <<"", FALSE>>
              /\ accessCount' = IncCount(accessCount, key)
              /\ UNCHANGED <<hits, succGets>>
    /\ UNCHANGED <<data, panicked>>
    /\ call' = Call("Get", key, None, 0)
    /\ getCalls' = getCalls + 1
    /\ UNCHANGED <<delCnt, delHits>>

Get(key) ==
    /\ getCalls < MaxGets
    /\ IF Has(data, key)
         THEN /\ hits' = hits + 1
              /\ accessCount' = IncCount(accessCount, key)
              /\ ret' = <<data[key], TRUE>>
              /\ succGets' = [succGets EXCEPT ![key] = @ + 1]
              /\ UNCHANGED misses
         ELSE /\ misses' = misses + 1
              /\ ret' = <<"", FALSE>>
              /\ UNCHANGED <<hits, accessCount, succGets>>
    /\ UNCHANGED <<data, panicked>>
    /\ call' = Call("Get", key, None, 0)
    /\ getCalls' = getCalls + 1
    /\ UNCHANGED <<delCnt, delHits>>

\* Variant of Delete: the key's access count is left in place.
DeleteKeepsCount(key) ==
    /\ IF Has(data, key)
         THEN /\ data' = MapDelete(data, key)
              /\ UNCHANGED accessCount
              /\ ret' = <<TRUE>>
              /\ delCnt' = [delCnt EXCEPT ![key] = CountOf(accessCount, key)]
              /\ succGets' = [succGets EXCEPT ![key] = 0]
              /\ delHits' = delHits + CountOf(accessCount, key)
         ELSE /\ ret' = <<FALSE>>
              /\ UNCHANGED <<data, accessCount, delCnt, succGets, delHits>>
    /\ UNCHANGED <<hits, misses, panicked>>
    /\ call' = Call("Delete", key, None, 0)
    /\ UNCHANGED getCalls

\* Variant of Delete: reports true whether or not the key existed.
DeleteAlwaysTrue(key) ==
    /\ IF Has(data, key)
         THEN /\ data' = MapDelete(data, key)
              /\ accessCount' = MapDelete(accessCount, key)
              /\ ret' = <<TRUE>>
              /\ delCnt' = [delCnt EXCEPT ![key] = CountOf(accessCount, key)]
              /\ succGets' = [succGets EXCEPT ![key] = 0]
              /\ delHits' = delHits + CountOf(accessCount, key)
         ELSE /\ ret' = <<TRUE>>
              /\ UNCHANGED <<data, accessCount, delCnt, succGets, delHits>>
    /\ UNCHANGED <<hits, misses, panicked>>
    /\ call' = Call("Delete", key, None, 0)
    /\ UNCHANGED getCalls

\* Variant of Delete: a Delete that finds nothing counts as a miss.
DeleteCountsMiss(key) ==
    /\ IF Has(data, key)
         THEN /\ data' = MapDelete(data, key)
              /\ accessCount' = MapDelete(accessCount, key)
              /\ ret' = <<TRUE>>
              /\ delCnt' = [delCnt EXCEPT ![key] = CountOf(accessCount, key)]
              /\ succGets' = [succGets EXCEPT ![key] = 0]
              /\ delHits' = delHits + CountOf(accessCount, key)
              /\ UNCHANGED <<hits, misses>>
         ELSE /\ ret' = <<FALSE>>
              /\ misses' = misses + 1
              /\ UNCHANGED hits
              /\ UNCHANGED <<data, accessCount, delCnt, succGets, delHits>>
    /\ UNCHANGED panicked
    /\ call' = Call("Delete", key, None, 0)
    /\ UNCHANGED getCalls

Delete(key) ==
    /\ IF Has(data, key)
         THEN /\ data' = MapDelete(data, key)
              /\ accessCount' = MapDelete(accessCount, key)
              /\ ret' = <<TRUE>>
              /\ delCnt' = [delCnt EXCEPT ![key] = CountOf(accessCount, key)]
              /\ succGets' = [succGets EXCEPT ![key] = 0]
              /\ delHits' = delHits + CountOf(accessCount, key)
         ELSE /\ ret' = <<FALSE>>
              /\ UNCHANGED <<data, accessCount, delCnt, succGets, delHits>>
    /\ UNCHANGED <<hits, misses, panicked>>
    /\ call' = Call("Delete", key, None, 0)
    /\ UNCHANGED getCalls

\* Variant of Clear: the hit and miss counters are left as they are.
ClearKeepsCounters ==
    /\ data' = EmptyMap
    /\ accessCount' = EmptyMap
    /\ UNCHANGED <<hits, misses>>
    /\ call' = Call("Clear", None, None, 0)
    /\ ret' = <<>>
    /\ UNCHANGED panicked
    /\ getCalls' = 0
    /\ succGets' = [k \in KeySet |-> 0]
    /\ delHits' = 0
    /\ UNCHANGED delCnt

\* Variant of Clear: the access counts are left as they are.
ClearKeepsCounts ==
    /\ data' = EmptyMap
    /\ UNCHANGED accessCount
    /\ hits' = 0
    /\ misses' = 0
    /\ call' = Call("Clear", None, None, 0)
    /\ ret' = <<>>
    /\ UNCHANGED panicked
    /\ getCalls' = 0
    /\ succGets' = [k \in KeySet |-> 0]
    /\ delHits' = 0
    /\ UNCHANGED delCnt

Clear ==
    /\ data' = EmptyMap
    /\ accessCount' = EmptyMap
    /\ hits' = 0
    /\ misses' = 0
    /\ call' = Call("Clear", None, None, 0)
    /\ ret' = <<>>
    /\ UNCHANGED panicked
    /\ getCalls' = 0
    /\ succGets' = [k \in KeySet |-> 0]
    /\ delHits' = 0
    /\ UNCHANGED delCnt

\* The part of the state a query leaves alone.
\* What belongs to the other programs of the repository.
beside == <<list, theOrder, clock, books, members>>

cacheState == <<data, accessCount, hits, misses>>
history == <<getCalls, succGets, delCnt, delHits>>

Size ==
    /\ call' = Call("Size", None, None, 0)
    /\ ret' = <<SizeResult>>
    /\ UNCHANGED <<cacheState, history, panicked>>

Keys ==
    /\ \E order \in RangeOrders(data) : ret' = <<KeysResult(order)>>
    /\ call' = Call("Keys", None, None, 0)
    /\ UNCHANGED <<cacheState, history, panicked>>

\* Variant of Stats: reading the statistics starts them afresh.
StatsResets ==
    /\ call' = Call("Stats", None, None, 0)
    /\ ret' = StatsResult
    /\ hits' = 0
    /\ misses' = 0
    /\ UNCHANGED <<data, accessCount, history, panicked>>

Stats ==
    /\ call' = Call("Stats", None, None, 0)
    /\ ret' = StatsResult
    /\ UNCHANGED <<cacheState, history, panicked>>

MostAccessed(n) ==
    /\ call' = Call("MostAccessed", None, None, n)
    /\ IF MakeSlicePanics(n)
         THEN /\ panicked' = TRUE
              /\ ret' = <<>>
         ELSE /\ \E order \in RangeOrders(accessCount) :
                    ret' = <<MostAccessedResult(order, n)>>
              /\ UNCHANGED panicked
    /\ UNCHANGED <<cacheState, history>>

LeastAccessed(n) ==
    /\ call' = Call("LeastAccessed", None, None, n)
    /\ IF MakeSlicePanics(n)
         THEN /\ panicked' = TRUE
              /\ ret' = <<>>
         ELSE /\ \E order \in RangeOrders(accessCount) :
                    ret' = <<LeastAccessedResult(order, n)>>
              /\ UNCHANGED panicked
    /\ UNCHANGED <<cacheState, history>>

Next ==
    /\ ~panicked
    /\ \/ \E key \in KeySet, value \in ValSet : Set(key, value)
       \/ \E key \in KeySet : Get(key)
       \/ \E key \in KeySet : Delete(key)
       \/ Clear
       \/ Size
       \/ Keys
       \/ Stats
       \/ \E n \in NSet : MostAccessed(n)
       \/ \E n \in NSet : LeastAccessed(n)
    /\ UNCHANGED <<callers, overlapped, begun>>
    /\ UNCHANGED beside

Spec == Init /\ [][Next]_vars

\* ------------------------------------------------ calls that overlap
\* Cache has no lock, so a call made while another goroutine is in a call runs
\* statement by statement between the other's statements.  c.hits++, c.misses++
\* and c.accessCount[key]++ are each a read followed by a write.  pc is the
\* statement a goroutine is about to run, seen the value it has read, val the
\* value its lookup found, and live whether the accessCount slot it holds is
\* still part of c.accessCount.  With two goroutines a slot that was deleted is
\* never handed out again while it is held.
InFlight(g) == callers[g].pc # "idle"

AllIdle == \A g \in Callers : ~InFlight(g)

\* g's call begins, one of at most MaxCalls: it overlaps whatever call is
\* under way.
Begin(g) ==
    /\ ~InFlight(g)
    /\ begun < MaxCalls
    /\ begun' = begun + 1
    /\ overlapped' = (overlapped \/ \E h \in Callers \ {g} : InFlight(h))

\* g moves on to statement pc.
Goto(g, pc) == callers' = [callers EXCEPT ![g].pc = pc]

\* The goroutines other than g lose the accessCount slot they hold, for key
\* alone or (key = None) for every key.
DropSlots(g, key) ==
    [h \in Callers |->
        IF h = g THEN Idle
        ELSE IF callers[h].live /\ (key = None \/ callers[h].key = key)
          THEN [callers[h] EXCEPT !.live = FALSE]
          ELSE callers[h]]

\* Set, called before the goroutines make their calls.
SetFirst(key, value) ==
    /\ begun = 0
    /\ Set(key, value)
    /\ UNCHANGED <<callers, overlapped, begun>>

\* Get: value, exists := c.data[key]
GetLookup(g, key) ==
    /\ Begin(g)
    /\ call' = Call("Get", key, None, 0)
    /\ getCalls' = getCalls + 1
    /\ IF Has(data, key)
         THEN /\ callers' = [callers EXCEPT ![g] =
                    [Idle EXCEPT !.pc = "hits", !.key = key, !.val = data[key]]]
              /\ succGets' = [succGets EXCEPT ![key] = @ + 1]
         ELSE /\ callers' = [callers EXCEPT ![g] =
                    [Idle EXCEPT !.pc = "misses", !.key = key]]
              /\ UNCHANGED succGets
    /\ UNCHANGED <<cacheState, ret, panicked, delCnt, delHits>>

\* Get: c.hits++, the read
GetLoadHits(g) ==
    /\ callers[g].pc = "hits"
    /\ callers' = [callers EXCEPT ![g].pc = "hitsStore", ![g].seen = hits]
    /\ UNCHANGED <<cacheState, call, ret, panicked, history, overlapped, begun>>

\* Variant of GetStoreHits: the value read is written back as it was.
GetStoreHitsSame(g) ==
    /\ callers[g].pc = "hitsStore"
    /\ hits' = callers[g].seen
    /\ Goto(g, "count")
    /\ UNCHANGED <<data, accessCount, misses, call, ret, panicked, history, overlapped, begun>>

\* Get: c.hits++, the write
GetStoreHits(g) ==
    /\ callers[g].pc = "hitsStore"
    /\ hits' = callers[g].seen + 1
    /\ Goto(g, "count")
    /\ UNCHANGED <<data, accessCount, misses, call, ret, panicked, history, overlapped, begun>>

\* Get: c.accessCount[key]++, the slot for key is found, or made with 0 in it
\* when the map has none, and read
GetTakeCount(g) ==
    /\ callers[g].pc = "count"
    /\ accessCount' = IF Has(accessCount, callers[g].key) THEN accessCount
                      ELSE MapSet(accessCount, callers[g].key, 0)
    /\ callers' = [callers EXCEPT ![g].pc = "countStore",
                                  ![g].seen = CountOf(accessCount, callers[g].key),
                                  ![g].live = TRUE]
    /\ UNCHANGED <<data, hits, misses, call, ret, panicked, history, overlapped, begun>>

\* Get: c.accessCount[key]++, the write into the slot, and return value, true
GetStoreCount(g) ==
    /\ callers[g].pc = "countStore"
    /\ accessCount' = IF callers[g].live
                        THEN MapSet(accessCount, callers[g].key, callers[g].seen + 1)
                        ELSE accessCount
    /\ ret' = <<callers[g].val, TRUE>>
    /\ callers' = [callers EXCEPT ![g] = Idle]
    /\ UNCHANGED <<data, hits, misses, call, panicked, history, overlapped, begun>>

\* Get: c.misses++, the read
GetLoadMisses(g) ==
    /\ callers[g].pc = "misses"
    /\ callers' = [callers EXCEPT ![g].pc = "missesStore", ![g].seen = misses]
    /\ UNCHANGED <<cacheState, call, ret, panicked, history, overlapped, begun>>

\* Get: c.misses++, the write, and return "", false
GetStoreMisses(g) ==
    /\ callers[g].pc = "missesStore"
    /\ misses' = callers[g].seen + 1
    /\ ret' = <<"", FALSE>>
    /\ callers' = [callers EXCEPT ![g] = Idle]
    /\ UNCHANGED <<data, accessCount, hits, call, panicked, history, overlapped, begun>>

\* Delete: _, exists := c.data[key], and return false when there is none
DeleteLookup(g, key) ==
    /\ Begin(g)
    /\ call' = Call("Delete", key, None, 0)
    /\ IF Has(data, key)
         THEN /\ callers' = [callers EXCEPT ![g] =
                    [Idle EXCEPT !.pc = "delData", !.key = key]]
              /\ UNCHANGED ret
         ELSE /\ ret' = <<FALSE>>
              /\ UNCHANGED callers
    /\ UNCHANGED <<cacheState, panicked, history>>

\* Delete: delete(c.data, key)
DeleteData(g) ==
    /\ callers[g].pc = "delData"
    /\ data' = MapDelete(data, callers[g].key)
    /\ Goto(g, "delCount")
    /\ UNCHANGED <<accessCount, hits, misses, call, ret, panicked, history, overlapped, begun>>

\* Variant of DeleteCount: the access count is left in the map.
DeleteCountLeft(g) ==
    /\ callers[g].pc = "delCount"
    /\ ret' = <<TRUE>>
    /\ callers' = [callers EXCEPT ![g] = Idle]
    /\ UNCHANGED <<cacheState, call, panicked, history, overlapped, begun>>

\* Delete: delete(c.accessCount, key), and return true
DeleteCount(g) ==
    /\ callers[g].pc = "delCount"
    /\ accessCount' = MapDelete(accessCount, callers[g].key)
    /\ ret' = <<TRUE>>
    /\ callers' = DropSlots(g, callers[g].key)
    /\ delCnt' = [delCnt EXCEPT ![callers[g].key] = CountOf(accessCount, callers[g].key)]
    /\ succGets' = [succGets EXCEPT ![callers[g].key] = 0]
    /\ delHits' = delHits + CountOf(accessCount, callers[g].key)
    /\ UNCHANGED <<data, hits, misses, call, panicked, getCalls, overlapped, begun>>

\* Clear: c.data = make(map[string]string)
ClearData(g) ==
    /\ Begin(g)
    /\ call' = Call("Clear", None, None, 0)
    /\ data' = EmptyMap
    /\ callers' = [callers EXCEPT ![g] = [Idle EXCEPT !.pc = "clearCount"]]
    /\ UNCHANGED <<accessCount, hits, misses, ret, panicked, history>>

\* Clear: c.accessCount = make(map[string]int)
ClearCount(g) ==
    /\ callers[g].pc = "clearCount"
    /\ accessCount' = EmptyMap
    /\ callers' = [DropSlots(g, None) EXCEPT ![g] = [Idle EXCEPT !.pc = "clearHits"]]
    /\ UNCHANGED <<data, hits, misses, call, ret, panicked, history, overlapped, begun>>

\* Clear: c.hits = 0
ClearHits(g) ==
    /\ callers[g].pc = "clearHits"
    /\ hits' = 0
    /\ Goto(g, "clearMisses")
    /\ UNCHANGED <<data, accessCount, misses, call, ret, panicked, history, overlapped, begun>>

\* Clear: c.misses = 0, and return
ClearMisses(g) ==
    /\ callers[g].pc = "clearMisses"
    /\ misses' = 0
    /\ ret' = <<>>
    /\ callers' = [callers EXCEPT ![g] = Idle]
    /\ getCalls' = 0
    /\ succGets' = [k \in KeySet |-> 0]
    /\ delHits' = 0
    /\ UNCHANGED <<data, accessCount, hits, call, panicked, delCnt, overlapped, begun>>

\* The map the statement g is about to run writes to.
MapWritten(g) ==
    CASE callers[g].pc = "count" -> "accessCount"
      [] callers[g].pc = "delData" -> "data"
      [] callers[g].pc = "delCount" -> "accessCount"
      [] OTHER -> "none"

\* The Go runtime finds one goroutine writing a map while another goroutine
\* writes it too, or is at a lookup in it, and stops the program ("fatal
\* error: concurrent map writes", "concurrent map read and map write").
MapFault ==
    /\ \E g \in Callers, h \in Callers :
          /\ g # h
          /\ MapWritten(g) # "none"
          /\ \/ MapWritten(h) = MapWritten(g)
             \/ MapWritten(g) = "data" /\ ~InFlight(h)
    /\ panicked' = TRUE
    /\ UNCHANGED <<cacheState, call, ret, history, callers, overlapped, begun>>

\* Get calls from the goroutines, overlapping or not, on a cache that Set
\* has filled.
NextGets ==
    /\ ~panicked
    /\ \/ \E key \in KeySet, value \in ValSet : SetFirst(key, value)
       \/ \E g \in Callers, key \in KeySet : GetLookup(g, key)
       \/ \E g \in Callers : GetLoadHits(g)
       \/ \E g \in Callers : GetStoreHits(g)
       \/ \E g \in Callers : GetTakeCount(g)
       \/ \E g \in Callers : GetStoreCount(g)
       \/ \E g \in Callers : GetLoadMisses(g)
       \/ \E g \in Callers : GetStoreMisses(g)
       \/ MapFault
    /\ UNCHANGED beside

SpecGets == Init /\ [][NextGets]_vars

\* Get, Delete and Clear calls from the goroutines, overlapping or not.
NextConc ==
    /\ ~panicked
    /\ \/ \E key \in KeySet, value \in ValSet : SetFirst(key, value)
       \/ \E g \in Callers, key \in KeySet : GetLookup(g, key)
       \/ \E g \in Callers : GetLoadHits(g)
       \/ \E g \in Callers : GetStoreHits(g)
       \/ \E g \in Callers : GetTakeCount(g)
       \/ \E g \in Callers : GetStoreCount(g)
       \/ \E g \in Callers : GetLoadMisses(g)
       \/ \E g \in Callers : GetStoreMisses(g)
       \/ \E g \in Callers, key \in KeySet : DeleteLookup(g, key)
       \/ \E g \in Callers : DeleteData(g)
       \/ \E g \in Callers : DeleteCount(g)
       \/ \E g \in Callers : ClearData(g)
       \/ \E g \in Callers : ClearCount(g)
       \/ \E g \in Callers : ClearHits(g)
       \/ \E g \in Callers : ClearMisses(g)
       \/ MapFault
    /\ UNCHANGED beside

SpecConc == Init /\ [][NextConc]_vars

\* ---------------------------------------------------------- LinkedList
\* A *ListNode is the number of the node, nil is 0.  list.nodes holds the
\* ListNodes the list can still reach; the others are the garbage collector's.
MaxNodes == 4

\* The values main pushes (two of them, so that a value can occur twice).
ListValues == {10, 20}

\* The indices passed to Get and InsertAt, one below and one above the range.
ListIndices == (0 - 1)..(MaxNodes + 1)

\* The cache, untouched by the other programs.
cacheVars == <<cacheState, history, callers, overlapped, begun>>

\* What a method did: the list it leaves, what it returns, and whether it ran
\* to its end (ok) or dereferenced nil.
Out(l, r, ok) == [list |-> l, ret |-> r, ok |-> ok]

\* &ListNode{...}: a node the list does not reach.
NewNode(l) ==
    CHOOSE n \in 1..MaxNodes :
        /\ n \notin DOMAIN l.nodes
        /\ \A m \in 1..MaxNodes : m \notin DOMAIN l.nodes => n <= m

\* The nodes with node n added or replaced.
WithNode(nodes, n, node) ==
    [m \in DOMAIN nodes \cup {n} |-> IF m = n THEN node ELSE nodes[m]]

\* The nodes reachable from the nodes in S through Next and Prev.
RECURSIVE Reach(_, _)
Reach(l, S) ==
    LET T == (S \cup {l.nodes[n].Next : n \in S} \cup {l.nodes[n].Prev : n \in S}) \ {0}
    IN IF T = S THEN S ELSE Reach(l, T)

\* The list once the garbage collector has taken the nodes it cannot reach.
Collect(l) ==
    LET live == Reach(l, {l.head, l.tail} \ {0})
    IN [l EXCEPT !.nodes = [n \in live |-> l.nodes[n]]]

\* Variant of pushFront: the old head is not linked back to the new node.
pushFrontNoPrev(l, value) ==
    LET node == NewNode(l)
    IN IF l.head = 0
         THEN [l EXCEPT !.nodes = WithNode(@, node, [Value |-> value, Prev |-> 0, Next |-> 0]),
                        !.head = node, !.tail = node, !.size = @ + 1]
         ELSE [l EXCEPT !.nodes = WithNode(@, node, [Value |-> value, Prev |-> 0, Next |-> l.head]),
                        !.head = node, !.size = @ + 1]

\* The list after PushFront(value).
pushFront(l, value) ==
    LET node == NewNode(l)
    IN IF l.head = 0
         THEN [l EXCEPT !.nodes = WithNode(@, node, [Value |-> value, Prev |-> 0, Next |-> 0]),
                        !.head = node, !.tail = node, !.size = @ + 1]
         ELSE [l EXCEPT !.nodes = [WithNode(@, node, [Value |-> value, Prev |-> 0, Next |-> l.head])
                                      EXCEPT ![l.head].Prev = node],
                        !.head = node, !.size = @ + 1]

\* The list after PushBack(value).
pushBack(l, value) ==
    LET node == NewNode(l)
    IN IF l.tail = 0
         THEN [l EXCEPT !.nodes = WithNode(@, node, [Value |-> value, Prev |-> 0, Next |-> 0]),
                        !.head = node, !.tail = node, !.size = @ + 1]
         ELSE [l EXCEPT !.nodes = [WithNode(@, node, [Value |-> value, Prev |-> l.tail, Next |-> 0])
                                      EXCEPT ![l.tail].Next = node],
                        !.tail = node, !.size = @ + 1]

\* Variant of popFront: the size is not counted down.
popFrontKeepsSize(l) ==
    IF l.head = 0 THEN Out(l, <<0, FALSE>>, TRUE)
    ELSE LET value == l.nodes[l.head].Value
             next == l.nodes[l.head].Next
         IN IF l.head = l.tail
              THEN Out([l EXCEPT !.head = 0, !.tail = 0], <<value, TRUE>>, TRUE)
              ELSE IF next = 0
                THEN Out([l EXCEPT !.head = 0], <<>>, FALSE)
                ELSE Out([l EXCEPT !.head = next, !.nodes[next].Prev = 0],
                         <<value, TRUE>>, TRUE)

\* PopFront().  l.head.Prev = nil dereferences nil when the head has no Next.
popFront(l) ==
    IF l.head = 0 THEN Out(l, <<0, FALSE>>, TRUE)
    ELSE LET value == l.nodes[l.head].Value
             next == l.nodes[l.head].Next
         IN IF l.head = l.tail
              THEN Out([l EXCEPT !.head = 0, !.tail = 0, !.size = @ - 1], <<value, TRUE>>, TRUE)
              ELSE IF next = 0
                THEN Out([l EXCEPT !.head = 0], <<>>, FALSE)
                ELSE Out([l EXCEPT !.head = next, !.nodes[next].Prev = 0, !.size = @ - 1],
                         <<value, TRUE>>, TRUE)

\* PopBack().  l.tail.Next = nil dereferences nil when the tail has no Prev.
popBack(l) ==
    IF l.tail = 0 THEN Out(l, <<0, FALSE>>, TRUE)
    ELSE LET value == l.nodes[l.tail].Value
             prev == l.nodes[l.tail].Prev
         IN IF l.head = l.tail
              THEN Out([l EXCEPT !.head = 0, !.tail = 0, !.size = @ - 1], <<value, TRUE>>, TRUE)
              ELSE IF prev = 0
                THEN Out([l EXCEPT !.tail = 0], <<>>, FALSE)
                ELSE Out([l EXCEPT !.tail = prev, !.nodes[prev].Next = 0, !.size = @ - 1],
                         <<value, TRUE>>, TRUE)

\* What a loop that dereferences nil comes to.
Fault == 0 - 1

\* current after n times current = current.Next (or .Prev).
RECURSIVE follow(_, _, _, _)
follow(l, current, field, n) ==
    IF n = 0 THEN current
    ELSE IF current = 0 THEN Fault
    ELSE follow(l, l.nodes[current][field], field, n - 1)

\* Variant of nodeAt: the walk from the tail stops one node early.
nodeAtShortFromTail(l, index) ==
    IF index < 0 \/ index >= l.size THEN 0
    ELSE IF index < l.size \div 2
      THEN follow(l, l.head, "Next", index)
      ELSE follow(l, l.tail, "Prev", l.size - 2 - index)

\* nodeAt(index): nil, the node, or Fault.
nodeAt(l, index) ==
    IF index < 0 \/ index >= l.size THEN 0
    ELSE IF index < l.size \div 2
      THEN follow(l, l.head, "Next", index)
      ELSE follow(l, l.tail, "Prev", l.size - 1 - index)

\* Get(index)
get(l, index) ==
    LET node == nodeAt(l, index)
    IN IF node = Fault THEN Out(l, <<>>, FALSE)
       ELSE IF node = 0 THEN Out(l, <<0, FALSE>>, TRUE)
       ELSE Out(l, <<l.nodes[node].Value, TRUE>>, TRUE)

\* Variant of indexRejected: an insertion at the end is rejected too.
indexRejectedAtEnd(l, index) == index < 0 \/ index >= l.size

\* InsertAt: index < 0 || index > l.size
indexRejected(l, index) == index < 0 \/ index > l.size

\* InsertAt(index, value)
insertAt(l, index, value) ==
    IF indexRejected(l, index) THEN Out(l, <<FALSE>>, TRUE)
    ELSE IF index = 0 THEN Out(pushFront(l, value), <<TRUE>>, TRUE)
    ELSE IF index = l.size THEN Out(pushBack(l, value), <<TRUE>>, TRUE)
    ELSE LET nextNode == nodeAt(l, index)
             prevNode == l.nodes[nextNode].Prev
             node == NewNode(l)
         IN IF nextNode \in {0, Fault} THEN Out(l, <<>>, FALSE)
            ELSE IF prevNode = 0 THEN Out(l, <<>>, FALSE)
            ELSE Out([l EXCEPT
                        !.nodes = [WithNode(@, node, [Value |-> value, Prev |-> prevNode,
                                                       Next |-> nextNode])
                                      EXCEPT ![prevNode].Next = node, ![nextNode].Prev = node],
                        !.size = @ + 1],
                     <<TRUE>>, TRUE)

\* removeNode(node)
removeNode(l, node) ==
    LET prev == l.nodes[node].Prev
        next == l.nodes[node].Next
        l1 == IF prev # 0 THEN [l EXCEPT !.nodes[prev].Next = next]
              ELSE [l EXCEPT !.head = next]
        l2 == IF next # 0 THEN [l1 EXCEPT !.nodes[next].Prev = prev]
              ELSE [l1 EXCEPT !.tail = prev]
    IN [l2 EXCEPT !.size = @ - 1]

\* Variant of firstWith: the search goes on to the last node with the value.
RECURSIVE lastWith(_, _, _, _)
lastWith(l, current, value, fuel) ==
    IF current = 0 \/ fuel = 0 THEN 0
    ELSE LET later == lastWith(l, l.nodes[current].Next, value, fuel - 1)
         IN IF later # 0 THEN later
            ELSE IF l.nodes[current].Value = value THEN current ELSE 0

\* The loop of Remove: the first node from current on that holds value, nil
\* when there is none.  The loop does not end on a list that runs in a circle;
\* fuel cuts it short there.
RECURSIVE firstWith(_, _, _, _)
firstWith(l, current, value, fuel) ==
    IF current = 0 \/ fuel = 0 THEN 0
    ELSE IF l.nodes[current].Value = value THEN current
    ELSE firstWith(l, l.nodes[current].Next, value, fuel - 1)

\* Remove(value)
remove(l, value) ==
    LET node == firstWith(l, l.head, value, MaxNodes + 1)
    IN IF node = 0 THEN Out(l, <<FALSE>>, TRUE)
       ELSE Out(removeNode(l, node), <<TRUE>>, TRUE)

\* Clear()
clear(l) == [l EXCEPT !.head = 0, !.tail = 0, !.size = 0]

\* The nodes a loop from current through field visits, at most fuel of them.
RECURSIVE walk(_, _, _, _)
walk(l, current, field, fuel) ==
    IF current = 0 \/ fuel = 0 THEN <<>>
    ELSE <<current>> \o walk(l, l.nodes[current][field], field, fuel - 1)

\* The values ForEach passes to fn, in order (one more than there are nodes
\* when the list runs in a circle).
ForEach(l) ==
    LET visited == walk(l, l.head, "Next", MaxNodes + 1)
    IN [i \in 1..Len(visited) |-> l.nodes[visited[i]].Value]

\* The values ForEachReverse passes to fn, in order.
ForEachReverse(l) ==
    LET visited == walk(l, l.tail, "Prev", MaxNodes + 1)
    IN [i \in 1..Len(visited) |-> l.nodes[visited[i]].Value]

\* ToSlice()
ToSlice(l) == ForEach(l)

\* The record of a call on the list.
ListCall(op, index, value) == [op |-> op, index |-> index, value |-> value]

\* A method has run: the list, what came back, and whether it panicked.
Done(op, index, value, out) ==
    /\ list' = Collect(out.list)
    /\ ret' = out.ret
    /\ panicked' = ~out.ok
    /\ call' = ListCall(op, index, value)
    /\ UNCHANGED <<cacheVars, theOrder, clock, books, members>>

HasRoom == Cardinality(DOMAIN list.nodes) < MaxNodes

PushFront(value) ==
    /\ HasRoom
    /\ Done("PushFront", 0, value, Out(pushFront(list, value), <<>>, TRUE))

PushBack(value) ==
    /\ HasRoom
    /\ Done("PushBack", 0, value, Out(pushBack(list, value), <<>>, TRUE))

PopFront == Done("PopFront", 0, 0, popFront(list))

PopBack == Done("PopBack", 0, 0, popBack(list))

ListGet(index) == Done("LinkedList.Get", index, 0, get(list, index))

InsertAt(index, value) ==
    /\ HasRoom \/ indexRejected(list, index)
    /\ Done("InsertAt", index, value, insertAt(list, index, value))

Remove(value) == Done("Remove", 0, value, remove(list, value))

ListClear == Done("LinkedList.Clear", 0, 0, Out(clear(list), <<>>, TRUE))

NextList ==
    /\ ~panicked
    /\ \/ \E value \in ListValues : PushFront(value)
       \/ \E value \in ListValues : PushBack(value)
       \/ PopFront
       \/ PopBack
       \/ \E index \in ListIndices : ListGet(index)
       \/ \E index \in ListIndices, value \in ListValues : InsertAt(index, value)
       \/ \E value \in ListValues \cup {100} : Remove(value)
       \/ ListClear

SpecList == Init /\ [][NextList]_vars

\* ---------------------------------------------------------------- Order
\* theOrder is the Order main has built: its status and updatedAt, the two
\* fields the transitions write.  clock is the last reading of time.Now().
MaxClock == 6

StatusPending == "pending"

StatusConfirmed == "confirmed"

StatusShipped == "shipped"

StatusDelivered == "delivered"

StatusCancelled == "cancelled"

\* A nil error.
NoError == "nil"

\* What a transition leaves: the order and the error it returns.
Went(o, err) == [order |-> o, err |-> err]

\* o.status = status; o.updatedAt = time.Now()
Moved(o, status, now) == Went([status |-> status, updatedAt |-> now], NoError)

confirm(o, now) ==
    IF o.status # StatusPending
    THEN Went(o, "can only confirm pending orders")
    ELSE Moved(o, StatusConfirmed, now)

ship(o, now) ==
    IF o.status # StatusConfirmed
    THEN Went(o, "can only ship confirmed orders")
    ELSE Moved(o, StatusShipped, now)

deliver(o, now) ==
    IF o.status # StatusShipped
    THEN Went(o, "can only deliver shipped orders")
    ELSE Moved(o, StatusDelivered, now)

\* A variant of Cancel without its first check.
cancelDelivered(o, now) ==
    IF o.status = StatusCancelled
    THEN Went(o, "order already cancelled")
    ELSE Moved(o, StatusCancelled, now)

cancel(o, now) ==
    IF o.status = StatusDelivered
    THEN Went(o, "cannot cancel delivered orders")
    ELSE IF o.status = StatusCancelled
         THEN Went(o, "order already cancelled")
         ELSE Moved(o, StatusCancelled, now)

\* The readings time.Now() can give: none is earlier than the last one.
Now == clock..MaxClock

\* A call on the order: time.Now() is read only when the transition is made.
Called(op, went, now) ==
    /\ theOrder' = went.order
    /\ clock' = IF went.err = NoError THEN now ELSE clock
    /\ ret' = <<went.err>>
    /\ call' = [op |-> op]
    /\ UNCHANGED <<cacheVars, panicked, list, books, members>>

Confirm == \E now \in Now : Called("Order.Confirm", confirm(theOrder, now), now)

Ship == \E now \in Now : Called("Order.Ship", ship(theOrder, now), now)

Deliver == \E now \in Now : Called("Order.Deliver", deliver(theOrder, now), now)

Cancel == \E now \in Now : Called("Order.Cancel", cancel(theOrder, now), now)

NextOrder ==
    \/ Confirm
    \/ Ship
    \/ Deliver
    \/ Cancel

SpecOrder == Init /\ [][NextOrder]_vars

\* -------------------------------------------------------------- Library
\* books and members are the two maps of the Library NewLibrary made.  A Book
\* is its ISBN and Available (Title and Author are only printed), a Member
\* its ID and Borrowed (Name is only printed).
MaxBorrowed == 3

\* Two of the ISBNs and the two member IDs of main.
ISBNs == {"978-0134190440", "978-0132350884"}

MemberIDs == {"M001", "M002"}

\* What a Library method leaves: the two maps and the error it returns.
Left(b, m, err) == [books |-> b, members |-> m, err |-> err]

\* l.Books[isbn] = &Book{..., ISBN: isbn, Available: true}
addBook(b, m, isbn) ==
    Left(MapSet(b, isbn, [ISBN |-> isbn, Available |-> TRUE]), m, NoError)

\* l.Members[id] = &Member{ID: id, ..., Borrowed: []string{}}
addMember(b, m, id) ==
    Left(b, MapSet(m, id, [ID |-> id, Borrowed |-> <<>>]), NoError)

borrowBook(b, m, memberID, isbn) ==
    IF ~Has(m, memberID) THEN Left(b, m, "member not found")
    ELSE IF ~Has(b, isbn) THEN Left(b, m, "book not found")
    ELSE IF ~b[isbn].Available THEN Left(b, m, "book is not available")
    ELSE Left([b EXCEPT ![isbn].Available = FALSE],
              [m EXCEPT ![memberID].Borrowed = Append(@, isbn)],
              NoError)

\* append(s[:i], s[i+1:]...), i counted from 1.
Without(s, i) == SubSeq(s, 1, i - 1) \o SubSeq(s, i + 1, Len(s))

\* The positions of isbn in a Borrowed list.
Places(s, isbn) == {i \in 1..Len(s) : s[i] = isbn}

\* The position the range loop stops at: the first one holding isbn.
First(s, isbn) == CHOOSE i \in Places(s, isbn) : \A j \in Places(s, isbn) : i <= j

returnBook(b, m, memberID, isbn) ==
    IF ~Has(m, memberID) THEN Left(b, m, "member not found")
    ELSE IF ~Has(b, isbn) THEN Left(b, m, "book not found")
    ELSE IF Places(m[memberID].Borrowed, isbn) = {}
         THEN Left(b, m, "member does not have the book borrowed")
         ELSE Left([b EXCEPT ![isbn].Available = TRUE],
                   [m EXCEPT ![memberID].Borrowed = Without(@, First(@, isbn))],
                   NoError)

\* A call on the library.
Served(op, memberID, isbn, left, results) ==
    /\ books' = left.books
    /\ members' = left.members
    /\ ret' = results
    /\ call' = [op |-> op, memberID |-> memberID, isbn |-> isbn]
    /\ UNCHANGED <<cacheVars, panicked, list, theOrder, clock>>

AddBook(isbn) == Served("AddBook", None, isbn, addBook(books, members, isbn), <<>>)

AddMember(id) == Served("AddMember", id, None, addMember(books, members, id), <<>>)

\* The Borrowed list of the member has room for one more ISBN.
CanBorrow(memberID) ==
    Has(members, memberID) => Len(members[memberID].Borrowed) < MaxBorrowed

BorrowBook(memberID, isbn) ==
    /\ CanBorrow(memberID)
    /\ LET left == borrowBook(books, members, memberID, isbn)
       IN Served("BorrowBook", memberID, isbn, left, <<left.err>>)

ReturnBook(memberID, isbn) ==
    LET left == returnBook(books, members, memberID, isbn)
    IN Served("ReturnBook", memberID, isbn, left, <<left.err>>)

NextLibrary ==
    \/ \E isbn \in ISBNs : AddBook(isbn)
    \/ \E id \in MemberIDs : AddMember(id)
    \/ \E memberID \in MemberIDs, isbn \in ISBNs : BorrowBook(memberID, isbn)
    \/ \E memberID \in MemberIDs, isbn \in ISBNs : ReturnBook(memberID, isbn)

SpecLibrary == Init /\ [][NextLibrary]_vars

\* ------------------------------------------------------------------ claims

GetStep_C2 ==
    call'.op = "Get" =>
        LET key == call'.key IN
        IF Has(data, key)
          THEN /\ hits' = hits + 1
               /\ Has(accessCount', key)
               /\ accessCount'[key] = CountOf(accessCount, key) + 1
               /\ misses' = misses
               /\ ret' = <<data[key], TRUE>>
          ELSE /\ misses' = misses + 1
               /\ hits' = hits
               /\ data' = data
               /\ accessCount' = accessCount
               /\ ~Has(data', key)
               /\ ~Has(accessCount', key)
               /\ ret' = <<"", FALSE>>

Thm_C2 == [][GetStep_C2]_vars

\* A Get has just found its key, counted before, after at least one miss.
Wit_C2 ==
    /\ call.op = "Get"
    /\ call.pre.had
    /\ call.pre.cnt >= 1
    /\ ret = <<data[call.key], TRUE>>
    /\ accessCount[call.key] = call.pre.cnt + 1
    /\ misses >= 1

\* C3: the access count of every stored key equals the number of successful
\* Get calls on it since the Set that created it, whatever Set, Get and Delete
\* calls on any key came in between (a Delete of the key itself ends the count).
Thm_C3 ==
    \A k \in DOMAIN data :
        /\ Has(accessCount, k)
        /\ accessCount[k] = succGets[k]

\* A key that was Set again after two or more successful Gets, while another
\* key was deleted in between.
Wit_C3 ==
    /\ call.op = "Set"
    /\ call.pre.had
    /\ succGets[call.key] >= 2
    /\ \E k \in KeySet \ {call.key} : delCnt[k] >= 0

\* C4: Set(k, v2) on a key that is already present replaces the stored value by
\* v2 and leaves k's access count as it was; a Get(k) that follows returns
\* (v2, true) and raises the count k had before the Set by 1.
SetStep_C4 ==
    /\ (call'.op = "Set" /\ Has(data, call'.key)) =>
          /\ data'[call'.key] = call'.val
          /\ Has(accessCount', call'.key)
          /\ accessCount'[call'.key] = CountOf(accessCount, call'.key)
    /\ (call.op = "Set" /\ call.pre.had /\ call'.op = "Get" /\ call'.key = call.key) =>
          /\ ret' = <<call.val, TRUE>>
          /\ Has(accessCount', call.key)
          /\ accessCount'[call.key] = call.pre.cnt + 1

Thm_C4 == [][SetStep_C4]_vars

\* A Set has just replaced the value of a key that had been read MaxGets times.
Wit_C4 ==
    /\ call.op = "Set"
    /\ call.pre.had
    /\ call.pre.old # call.val
    /\ data[call.key] = call.val
    /\ call.pre.cnt = MaxGets
    /\ accessCount[call.key] = MaxGets

\* C5: a Set(k, v) that follows a Delete(k) of a present key k gives k an
\* access count of 0, whatever count k had when it was deleted.
Thm_C5 ==
    (call.op = "Set" /\ call.pre.del >= 0) =>
        /\ Has(accessCount, call.key)
        /\ accessCount[call.key] = 0

\* A key deleted with a count of MaxGets has just been Set again.
Wit_C5 ==
    /\ call.op = "Set"
    /\ call.pre.del = MaxGets
    /\ accessCount[call.key] = 0

\* C9: Delete(key) returns true exactly when the key was present and then
\* removes it from data and from accessCount; a Delete of an absent key returns
\* false and changes neither map; hits and misses are unchanged either way; a
\* Delete(k) right after a Delete(k) that returned true returns false.
DeleteStep_C9 ==
    call'.op = "Delete" =>
        LET key == call'.key IN
        /\ ret' = <<Has(data, key)>>
        /\ Has(data, key) => ~Has(data', key) /\ ~Has(accessCount', key)
        /\ ~Has(data, key) => data' = data /\ accessCount' = accessCount
        /\ hits' = hits
        /\ misses' = misses
        /\ (call.op = "Delete" /\ call.key = key /\ ret = <<TRUE>>) => ret' = <<FALSE>>

Thm_C9 == [][DeleteStep_C9]_vars

\* A Delete has just returned false for a key that an earlier Delete removed,
\* in a cache with hits and misses on record.
Wit_C9 ==
    /\ call.op = "Delete"
    /\ ret = <<FALSE>>
    /\ call.pre.del >= 1
    /\ hits >= 1
    /\ misses >= 1

\* The elements of a sequence.
Range(seq) == {seq[i] : i \in 1..Len(seq)}

\* res is a ranking of the stored keys by access count, best first, cut to n:
\* min(n, Size()) distinct stored keys, each at least as good as the next,
\* and no stored key left out is strictly better than a key in res.  better(x, y)
\* says that count x is strictly better than count y.
Ranked(res, n, better(_, _)) ==
    /\ Len(res) = Min(n, SizeResult)
    /\ \A i, j \in 1..Len(res) : i # j => res[i] # res[j]
    /\ \A i \in 1..Len(res) : Has(data, res[i])
    /\ \A i, j \in 1..Len(res) :
          i < j => ~better(CountOf(accessCount, res[j]), CountOf(accessCount, res[i]))
    /\ \A o \in DOMAIN data \ Range(res) : \A i \in 1..Len(res) :
          ~better(CountOf(accessCount, o), CountOf(accessCount, res[i]))

Higher(x, y) == x > y
Lower(x, y) == x < y

Cex_C7 ==
    (call.op \in {"MostAccessed", "LeastAccessed"} /\ call.n <= 0) =>
        ~panicked /\ ret = << <<>> >>

\* C8: right after Clear(), whatever the state before, Size() is 0, Keys() is
\* empty, Stats() is (0, 0, 0) and accessCount has no entry left; a key that
\* is Set next starts at an access count of 0.
ClearStep_C8 ==
    /\ call'.op = "Clear" =>
          /\ SizeResult' = 0
          /\ \A order \in RangeOrders(data') : KeysResult(order) = <<>>
          /\ StatsResult' = <<0, 0, FloatZero>>
          /\ DOMAIN accessCount' = {}
    /\ (call.op = "Clear" /\ call'.op = "Set") =>
          /\ Has(accessCount', call'.key)
          /\ accessCount'[call'.key] = 0

Thm_C8 == [][ClearStep_C8]_vars

\* Clear has just emptied a cache that held three keys and had counted
\* MaxGets Get calls.
Wit_C8 ==
    /\ call.op = "Clear"
    /\ call.pre.size = 3
    /\ call.pre.gets = MaxGets
    /\ SizeResult = 0
    /\ StatsResult = <<0, 0, FloatZero>>

\* The ranking calls whose result is a cut ranking (n >= 1, so no panic).
RankingReturned ==
    /\ call.op \in {"MostAccessed", "LeastAccessed"}
    /\ call.n >= 1
    /\ ~panicked

\* In res, keys with equal access counts stand in lexicographic order, and a
\* key left out has no tied key in res that comes after it lexicographically.
TiesLexicographic(res) ==
    /\ \A i, j \in 1..Len(res) :
          (i < j /\ CountOf(accessCount, res[i]) = CountOf(accessCount, res[j]))
              => StringLess(res[i], res[j])
    /\ \A o \in DOMAIN accessCount \ Range(res) : \A i \in 1..Len(res) :
          CountOf(accessCount, o) = CountOf(accessCount, res[i])
              => StringLess(res[i], o)

\* C10 as stated: MostAccessed and LeastAccessed order tied keys
\* lexicographically and truncation keeps the lexicographically first of them.
Cex_C10 == RankingReturned => TiesLexicographic(ret[1])

\* r lists keys so that no later key has a strictly better count than an earlier one.
SortedBy(r, better(_, _)) ==
    \A i, j \in 1..Len(r) :
        i < j => ~better(CountOf(accessCount, r[j]), CountOf(accessCount, r[i]))

Prefix(r, n) == SubSeq(r, 1, Min(n, Len(r)))

\* C10 as amended: the order of tied keys is decided by the order in which the
\* range over the map yields them, not by the keys: whenever MostAccessed(n)
\* or LeastAccessed(n) returns, every arrangement of the keys that is ranked by
\* count, cut to n, is the result for some range order, so the tied keys can
\* come back in any order and truncation can keep any of them.
Thm_C10 ==
    /\ (RankingReturned /\ call.op = "MostAccessed") =>
          \A r \in RangeOrders(accessCount) :
              SortedBy(r, Higher) =>
                  \E order \in RangeOrders(accessCount) :
                      MostAccessedResult(order, call.n) = Prefix(r, call.n)
    /\ (RankingReturned /\ call.op = "LeastAccessed") =>
          \A r \in RangeOrders(accessCount) :
              SortedBy(r, Lower) =>
                  \E order \in RangeOrders(accessCount) :
                      LeastAccessedResult(order, call.n) = Prefix(r, call.n)

\* MostAccessed(1) has just returned "b" although "a" has the same count.
Wit_C10 ==
    /\ call.op = "MostAccessed"
    /\ call.n = 1
    /\ Has(accessCount, "a")
    /\ Has(accessCount, "b")
    /\ accessCount["a"] = accessCount["b"]
    /\ accessCount["a"] >= 1
    /\ ret = << <<"b">> >>

\* C11 as stated: MostAccessed(n) and LeastAccessed(n) are functions of the
\* cache state and n alone: whatever order the map is ranged over in, the
\* sequence returned is the same.
Cex_C11 ==
    RankingReturned =>
        \A order \in RangeOrders(accessCount) :
            ret[1] = IF call.op = "MostAccessed"
                       THEN MostAccessedResult(order, call.n)
                       ELSE LeastAccessedResult(order, call.n)

\* The access counts of the keys of res, in order.
CountsOf(res) == [i \in 1..Len(res) |-> CountOf(accessCount, res[i])]

\* No two stored keys have the same access count.
CountsDistinct ==
    \A k1, k2 \in DOMAIN accessCount : k1 # k2 => accessCount[k1] # accessCount[k2]

\* C11 as amended: the cache state and n determine the access counts of the
\* returned sequence, position by position, whatever the range order; they
\* determine the keys themselves when no two stored keys have the same access
\* count.  Which of several tied keys stands where depends on the range order.
Thm_C11 ==
    RankingReturned =>
        \A order \in RangeOrders(accessCount) :
            LET res == IF call.op = "MostAccessed"
                         THEN MostAccessedResult(order, call.n)
                         ELSE LeastAccessedResult(order, call.n)
            IN /\ CountsOf(res) = CountsOf(ret[1])
               /\ CountsDistinct => res = ret[1]

\* LeastAccessed(3) has just ranked three keys with three different counts.
Wit_C11 ==
    /\ call.op = "LeastAccessed"
    /\ call.n = 3
    /\ Len(ret[1]) = 3
    /\ CountsDistinct

\* C12: Keys() returns every stored key exactly once and nothing else, in
\* strictly ascending lexicographic order, whatever order the map is ranged
\* over in.
Thm_C12 ==
    call.op = "Keys" =>
        LET keys == ret[1] IN
        /\ Len(keys) = Cardinality(DOMAIN data)
        /\ Range(keys) = DOMAIN data
        /\ \A i, j \in 1..Len(keys) : i < j => StringLess(keys[i], keys[j])
        /\ \A order \in RangeOrders(data) : KeysResult(order) = keys

\* Keys() has just listed three keys, two of them read, after a Delete had
\* removed a key with counted hits.
Wit_C12 ==
    /\ call.op = "Keys"
    /\ ret = << <<"a", "b", "c">> >>
    /\ succGets["a"] = 0
    /\ succGets["b"] >= 1
    /\ succGets["c"] >= 1
    /\ delHits >= 1

\* C13: Size() is the number of keys that were Set and not removed since: 0 at
\* first, a Set of a new key raises it by 1, a Set of a stored key and a Get
\* leave it alone, a Delete of a stored key lowers it by 1, a Delete that finds
\* nothing leaves it alone and Clear makes it 0; Size() returns that number.
SizeStep_C13 ==
    LET key == call'.key IN
    /\ call'.op = "Set" =>
          SizeResult' = SizeResult + (IF Has(data, key) THEN 0 ELSE 1)
    /\ call'.op = "Get" => SizeResult' = SizeResult
    /\ call'.op = "Delete" =>
          SizeResult' = SizeResult - (IF Has(data, key) THEN 1 ELSE 0)
    /\ call'.op = "Clear" => SizeResult' = 0
    /\ call'.op = "Size" => ret' = <<SizeResult>> /\ SizeResult' = SizeResult

Thm_C13 == SizeResult = 0 /\ [][SizeStep_C13]_vars

\* Size() has just returned 2 for a cache from which a key was deleted.
Wit_C13 ==
    /\ call.op = "Size"
    /\ ret = <<2>>
    /\ \E k \in KeySet : delCnt[k] >= 0

\* The float64 nearest to h * 100 / t, the quotient rounded once.
NearestPercent(h, t) == QuoFloat(h * 100, t)

\* C14 as stated: Stats() returns the current hits and misses and a hit rate
\* that is 0 when hits + misses = 0 and otherwise equals
\* hits * 100 / (hits + misses), so it lies between 0 and 100 inclusive.
Cex_C14 ==
    call.op = "Stats" =>
        /\ ret[1] = hits
        /\ ret[2] = misses
        /\ ret[3] = IF hits + misses = 0 THEN FloatZero
                      ELSE NearestPercent(hits, hits + misses)
        /\ FloatLeq(FloatZero, ret[3])
        /\ FloatLeq(ret[3], QuoFloat(100, 1))

\* C14 as amended: Stats() returns the current hits and misses and a hit rate
\* that is 0 when hits + misses = 0 and lies between 0 and 100 inclusive; when
\* hits + misses > 0 it is the float64 nearest to hits * 100 / (hits + misses)
\* or the float64 next to that one, and it is exactly 100 when there are no
\* misses and exactly 0 when there are no hits.
Thm_C14 ==
    call.op = "Stats" =>
        LET total == hits + misses
            nearest == NearestPercent(hits, total)
        IN /\ ret[1] = hits
           /\ ret[2] = misses
           /\ total = 0 => ret[3] = FloatZero
           /\ total > 0 =>
                 \/ ret[3] = nearest
                 \/ NextUp(ret[3]) = nearest
                 \/ ret[3] = NextUp(nearest)
           /\ (total > 0 /\ misses = 0) => ret[3] = QuoFloat(100, 1)
           /\ (total > 0 /\ hits = 0) => ret[3] = FloatZero
           /\ FloatLeq(FloatZero, ret[3])
           /\ FloatLeq(ret[3], QuoFloat(100, 1))

\* Stats() has just returned, for 1 hit and 2 misses, the float64 just below
\* the one nearest to 100 / 3.
Wit_C14 ==
    /\ call.op = "Stats"
    /\ ret[1] = 1
    /\ ret[2] = 2
    /\ ret[3] # NearestPercent(1, 3)
    /\ NextUp(ret[3]) = NearestPercent(1, 3)

\* C15: hits and misses never go down in a step other than Clear, no call but
\* Get and Clear changes them, and Clear sets both to 0.
CounterStep_C15 ==
    /\ call'.op # "Clear" => hits' >= hits /\ misses' >= misses
    /\ call'.op \notin {"Get", "Clear"} => hits' = hits /\ misses' = misses
    /\ call'.op = "Clear" => hits' = 0 /\ misses' = 0

Thm_C15 == [][CounterStep_C15]_vars

\* A Delete has just removed a key with counted hits, and hits and misses
\* still stand.
Wit_C15 ==
    /\ call.op = "Delete"
    /\ call.pre.had
    /\ call.pre.cnt >= 1
    /\ hits >= 2
    /\ misses >= 1

\* C16: accessCount has an entry for exactly the keys of data, and every
\* access count is a non-negative integer.
Thm_C16 ==
    /\ DOMAIN accessCount = DOMAIN data
    /\ \A k \in DOMAIN accessCount : accessCount[k] \in Nat

\* A Delete has just removed one of three keys; the two left have counts.
Wit_C16 ==
    /\ call.op = "Delete"
    /\ call.pre.had
    /\ SizeResult = 2
    /\ \A k \in DOMAIN data : accessCount[k] >= 1

\* C17: a Set(k, v) right after a Set(k, v) changes nothing in the cache, and
\* no Set panics or returns anything.
SetStep_C17 ==
    /\ (call.op = "Set" /\ call'.op = "Set" /\ call'.key = call.key
            /\ call'.val = call.val) =>
          UNCHANGED cacheState
    /\ call'.op = "Set" => ~panicked' /\ ret' = <<>>

Thm_C17 == [][SetStep_C17]_vars

\* A Set has just stored again the value a key already had, the key having
\* been read before.
Wit_C17 ==
    /\ call.op = "Set"
    /\ call.pre.had
    /\ call.pre.old = call.val
    /\ call.pre.cnt >= 1
    /\ data[call.key] = call.val

\* C18 as stated: under every interleaving of Get calls, once all of them
\* have returned, hits + misses is the number of Get calls and each key's
\* access count is the number of Get calls that found it.
Cex_C18 ==
    (AllIdle /\ ~panicked) =>
        /\ hits + misses = getCalls
        /\ \A k \in DOMAIN accessCount : accessCount[k] = succGets[k]

\* C18 as amended: when no Get began while another call was under way, then,
\* once all calls have returned, hits + misses is the number of Get calls and
\* each key's access count is the number of Get calls that found it.  Get
\* calls that overlap can lose counts but never add any: hits + misses is at
\* most the number of Get calls begun and a key's access count at most the
\* number of Get calls that found it.
Thm_C18 ==
    /\ (AllIdle /\ ~overlapped) =>
          /\ hits + misses = getCalls
          /\ \A k \in DOMAIN accessCount : accessCount[k] = succGets[k]
    /\ hits + misses <= getCalls
    /\ \A k \in DOMAIN accessCount : accessCount[k] <= succGets[k]

\* Two Get calls that overlapped have both returned and found the same key,
\* and only one of them is counted, in hits and in the key's access count.
Wit_C18 ==
    /\ AllIdle
    /\ ~panicked
    /\ overlapped
    /\ getCalls = 2
    /\ hits = 1
    /\ misses = 0
    /\ \E k \in DOMAIN accessCount : succGets[k] = 2 /\ accessCount[k] = 1

\* C19 as stated, read at the states where every call has returned: after a
\* Get(k) has run interleaved with a Delete(k) or a Clear(), no key has an
\* access count without a stored value.
Cex_C19 ==
    (AllIdle /\ ~panicked) => DOMAIN accessCount \subseteq DOMAIN data

\* C19 as amended: when no call began while another call was under way, then,
\* once all calls have returned, the keys with an access count are the keys
\* with a stored value.  A Get(k) that found k before a Delete(k) or Clear()
\* removed it does create the access count of k again, so after overlapping
\* calls a key can have an access count and no stored value; a stored key
\* always has an access count.
Thm_C19 ==
    /\ (AllIdle /\ ~overlapped) => DOMAIN accessCount = DOMAIN data
    /\ DOMAIN data \subseteq DOMAIN accessCount

\* A Get(k) and a Delete(k) that overlapped have both returned, the Get last
\* and with the value it found, and k has an access count of 1 and no value.
Wit_C19 ==
    /\ AllIdle
    /\ ~panicked
    /\ overlapped
    /\ call.op = "Delete"
    /\ Len(ret) = 2
    /\ ret[2] = TRUE
    /\ ~Has(data, call.key)
    /\ Has(accessCount, call.key)
    /\ accessCount[call.key] = 1

\* The sum of m over the keys in S.
RECURSIVE SumOver(_, _)
SumOver(m, S) ==
    IF S = {} THEN 0
    ELSE LET k == CHOOSE x \in S : TRUE IN m[k] + SumOver(m, S \ {k})

SumCounts == SumOver(accessCount, DOMAIN accessCount)

\* C20: the access counts of the stored keys sum to at most hits, and to
\* exactly hits when no Delete has removed a counted key since the last Clear
\* (or since NewCache).
Thm_C20 ==
    /\ SumCounts <= hits
    /\ delHits = 0 => SumCounts = hits

\* A Delete has just removed a key with counted hits while another counted key
\* stays, so the counts sum to less than hits.
Wit_C20 ==
    /\ call.op = "Delete"
    /\ call.pre.cnt >= 1
    /\ SumCounts >= 1
    /\ SumCounts < hits

\* C21: Size, Keys, Stats, MostAccessed and LeastAccessed are read-only: a
\* call of any of them, the ones that panic included, leaves data,
\* accessCount, hits and misses as they were.
ReadStep_C21 ==
    call'.op \in {"Size", "Keys", "Stats", "MostAccessed", "LeastAccessed"} =>
        UNCHANGED cacheState

Thm_C21 == [][ReadStep_C21]_vars

\* Stats() has just returned 2 hits and 1 miss on a cache of three keys whose
\* counters still say so.
Wit_C21 ==
    /\ call.op = "Stats"
    /\ ret[1] = 2
    /\ ret[2] = 1
    /\ hits = 2
    /\ misses = 1
    /\ SizeResult = 3
    /\ SumCounts = 2

\* The value and the access count of every key but key are what they were.
OthersKept(key) ==
    \A k \in KeySet \ {key} :
        /\ Has(data', k) = Has(data, k)
        /\ Has(data, k) => data'[k] = data[k]
        /\ Has(accessCount', k) = Has(accessCount, k)
        /\ Has(accessCount, k) => accessCount'[k] = accessCount[k]

\* C22: Set(k, v), a Get(k) that finds k and Delete(k) leave the value and the
\* access count of every other key as they were, and Set and Delete leave
\* hits and misses as they were.
KeyStep_C22 ==
    /\ call'.op \in {"Set", "Delete"} =>
          OthersKept(call'.key) /\ hits' = hits /\ misses' = misses
    /\ (call'.op = "Get" /\ Has(data, call'.key)) => OthersKept(call'.key)

Thm_C22 == [][KeyStep_C22]_vars

\* A Set has just given a new value to one of three keys while the two others
\* have been read.
Wit_C22 ==
    /\ call.op = "Set"
    /\ call.pre.had
    /\ call.pre.old # call.val
    /\ SizeResult = 3
    /\ \A k \in KeySet \ {call.key} : accessCount[k] >= 1

\* seq back to front.
Reversed(seq) == [i \in 1..Len(seq) |-> seq[Len(seq) + 1 - i]]

\* The nodes ForEach visits, in order.
Forward == walk(list, list.head, "Next", MaxNodes + 1)

\* C23: after any sequence of PushFront, PushBack, PopFront, PopBack,
\* InsertAt, Remove and Clear the list is well formed: no call has dereferenced
\* nil; the walk from head through Next ends, at tail, and size is the number
\* of nodes on it; head is nil iff tail is nil iff size is 0; head.Prev and
\* tail.Next are nil; n.Next.Prev is n for every node n with a successor; and
\* ForEachReverse visits the reverse of what ForEach visits.
Thm_C23 ==
    /\ ~panicked
    /\ Len(Forward) <= MaxNodes
    /\ Cardinality(Range(Forward)) = Len(Forward)
    /\ list.size = Len(Forward)
    /\ (list.head = 0) = (list.size = 0)
    /\ (list.tail = 0) = (list.size = 0)
    /\ list.size > 0 =>
          /\ Forward[Len(Forward)] = list.tail
          /\ list.nodes[list.head].Prev = 0
          /\ list.nodes[list.tail].Next = 0
    /\ \A n \in Range(Forward) :
          list.nodes[n].Next # 0 => list.nodes[list.nodes[n].Next].Prev = n
    /\ ForEachReverse(list) = Reversed(ForEach(list))

\* A Remove has just taken a node out of a full list, and the head of what is
\* left was made after its tail.
Wit_C23 ==
    /\ call.op = "Remove"
    /\ ret = <<TRUE>>
    /\ list.size = MaxNodes - 1
    /\ ForEach(list) = <<20, 10, 20>>
    /\ list.head > list.tail

\* C24: InsertAt(index, value) on a list holding s returns false and leaves
\* the list as it was when index < 0 or index > len(s); otherwise it returns
\* true, the list holds s[0..index), value, s[index..], and size is 1 more.
InsertStep_C24 ==
    call'.op = "InsertAt" =>
        LET s == ToSlice(list)
            index == call'.index
        IN IF index < 0 \/ index > Len(s)
             THEN ret' = <<FALSE>> /\ list' = list
             ELSE /\ ret' = <<TRUE>>
                  /\ ToSlice(list') =
                        SubSeq(s, 1, index) \o <<call'.value>> \o SubSeq(s, index + 1, Len(s))
                  /\ list'.size = list.size + 1

Thm_C24 == [][InsertStep_C24]_vars

\* InsertAt(2, 20) has just put 20 between the second and the third of three
\* 10s.
Wit_C24 ==
    /\ call.op = "InsertAt"
    /\ call.index = 2
    /\ call.value = 20
    /\ ret = <<TRUE>>
    /\ ToSlice(list) = <<10, 10, 20, 10>>

\* C25: on an empty list PopFront and PopBack return (0, false) and leave the
\* list as it was; on a list holding s, PopFront returns (s[0], true) and
\* leaves s[1..], PopBack returns (the last of s, true) and leaves s without
\* its last element, and size is 1 less.
PopStep_C25 ==
    LET s == ToSlice(list) IN
    /\ (call'.op \in {"PopFront", "PopBack"} /\ s = <<>>) =>
          ret' = <<0, FALSE>> /\ list' = list
    /\ (call'.op = "PopFront" /\ s # <<>>) =>
          /\ ret' = <<s[1], TRUE>>
          /\ ToSlice(list') = SubSeq(s, 2, Len(s))
          /\ list'.size = list.size - 1
    /\ (call'.op = "PopBack" /\ s # <<>>) =>
          /\ ret' = <<s[Len(s)], TRUE>>
          /\ ToSlice(list') = SubSeq(s, 1, Len(s) - 1)
          /\ list'.size = list.size - 1

Thm_C25 == [][PopStep_C25]_vars

\* PopBack has just returned the 20 at the end of a full list and left 10, 20
\* and 10.
Wit_C25 ==
    /\ call.op = "PopBack"
    /\ ret = <<20, TRUE>>
    /\ list.size = MaxNodes - 1
    /\ ToSlice(list) = <<10, 20, 10>>

\* C26: Remove(value) on a list holding s takes out the first element equal
\* to value and nothing else, returns true and makes size 1 less; when value
\* does not occur it returns false and leaves the list as it was.
RemoveStep_C26 ==
    call'.op = "Remove" =>
        LET s == ToSlice(list)
            at == {i \in 1..Len(s) : s[i] = call'.value}
            first == CHOOSE i \in at : \A j \in at : i <= j
        IN IF at = {}
             THEN ret' = <<FALSE>> /\ list' = list
             ELSE /\ ret' = <<TRUE>>
                  /\ ToSlice(list') = SubSeq(s, 1, first - 1) \o SubSeq(s, first + 1, Len(s))
                  /\ list'.size = list.size - 1

Thm_C26 == [][RemoveStep_C26]_vars

\* Remove(10) has just taken the first 10 out of a list that held two of
\* them with a 20 in between.
Wit_C26 ==
    /\ call.op = "Remove"
    /\ call.value = 10
    /\ ret = <<TRUE>>
    /\ ToSlice(list) = <<20, 10>>

\* C27: Get(index) returns (ToSlice()[index], true) when 0 <= index < Size()
\* and (0, false) otherwise, whether nodeAt walks from the head or from the
\* tail.
Thm_C27 ==
    call.op = "LinkedList.Get" =>
        ret = IF 0 <= call.index /\ call.index < list.size
                THEN <<ToSlice(list)[call.index + 1], TRUE>>
                ELSE <<0, FALSE>>

\* Get(2) on a full list has just walked one node back from the tail to the
\* only 20.
Wit_C27 ==
    /\ call.op = "LinkedList.Get"
    /\ call.index = 2
    /\ ret = <<20, TRUE>>
    /\ ToSlice(list) = <<10, 10, 20, 10>>

\* C28: an Order's status changes only along pending -> confirmed -> shipped
\* -> delivered, by Confirm, Ship and Deliver, each from the status just
\* before, or to cancelled by Cancel from pending, confirmed or shipped;
\* delivered and cancelled are left by no call; and a call made from any other
\* status returns an error and leaves the status as it was.
Source_C28(op) ==
    CASE op = "Order.Confirm" -> {StatusPending}
      [] op = "Order.Ship" -> {StatusConfirmed}
      [] op = "Order.Deliver" -> {StatusShipped}
      [] op = "Order.Cancel" -> {StatusPending, StatusConfirmed, StatusShipped}

Target_C28(op) ==
    CASE op = "Order.Confirm" -> StatusConfirmed
      [] op = "Order.Ship" -> StatusShipped
      [] op = "Order.Deliver" -> StatusDelivered
      [] op = "Order.Cancel" -> StatusCancelled

OrderStep_C28 ==
    /\ call'.op \in {"Order.Confirm", "Order.Ship", "Order.Deliver", "Order.Cancel"}
    /\ IF theOrder.status \in Source_C28(call'.op)
       THEN /\ theOrder'.status = Target_C28(call'.op)
            /\ ret' = <<NoError>>
       ELSE /\ theOrder'.status = theOrder.status
            /\ ret' # <<NoError>>
    /\ (theOrder.status \in {StatusDelivered, StatusCancelled}
            => theOrder'.status = theOrder.status)

Thm_C28 == [][OrderStep_C28]_vars

\* Cancel has been refused on a delivered order.
Wit_C28 ==
    /\ call.op = "Order.Cancel"
    /\ theOrder.status = StatusDelivered
    /\ ret = <<"cannot cancel delivered orders">>

\* C29: after any sequence of AddBook, AddMember, BorrowBook and ReturnBook
\* calls a book is unavailable exactly when its ISBN is in some member's
\* Borrowed list, no ISBN is in the lists of two members or twice in one
\* list, and a BorrowBook or ReturnBook call that returns an error leaves
\* every book and every member unchanged.
Holders_C29(isbn) ==
    {id \in DOMAIN members : Places(members[id].Borrowed, isbn) # {}}

Accounted_C29 ==
    \A isbn \in DOMAIN books : ~books[isbn].Available <=> Holders_C29(isbn) # {}

HeldOnce_C29 ==
    \A isbn \in ISBNs :
        /\ Cardinality(Holders_C29(isbn)) <= 1
        /\ \A id \in DOMAIN members :
               Cardinality(Places(members[id].Borrowed, isbn)) <= 1

Refused_C29 ==
    (call'.op \in {"BorrowBook", "ReturnBook"} /\ ret' # <<NoError>>)
        => (books' = books /\ members' = members)

Cex_C29 == [](Accounted_C29 /\ HeldOnce_C29) /\ [][Refused_C29]_vars

\* The part of C29 about refused calls, on its own.
RefusedKept_C29 == [][Refused_C29]_vars

\* A book that is in a member's Borrowed list has been added again.
Readded_C29 ==
    /\ call.op = "AddBook"
    /\ books[call.isbn].Available
    /\ Holders_C29(call.isbn) # {}

\* Two members hold the same ISBN.
HeldTwice_C29 == \E isbn \in ISBNs : Cardinality(Holders_C29(isbn)) = 2

\* A member holding a book has been registered again, and the book stays out.
Reregistered_C29 ==
    /\ call.op = "AddMember"
    /\ \E isbn \in DOMAIN books :
           ~books[isbn].Available /\ Holders_C29(isbn) = {}

====
